---- MODULE Spec2Model ----
(***************************************************************************)
(* Model of the resurface phase-0 heuristic classifier:                    *)
(*   OcrResult -> compute_features -> score_* -> classify.                 *)
(*                                                                         *)
(* Text is a sequence of characters; a character is a one-character        *)
(* string, except the non-ASCII glyphs, which are named:                   *)
(*   "EMDASH" U+2014, "LDQUO" U+201C, "RDQUO" U+201D, "DEG" U+00B0,        *)
(*   "BULLET" U+2022, "TIMES" U+00D7, "LONGS" U+017F (long s),             *)
(*   "KELVIN" U+212A (Kelvin sign).                                        *)
(* Scores and thresholds are floats in the source; every score is a sum of *)
(* whole numbers, so they are kept here as fixed-point integers in tenths  *)
(* (3.0 is 30).  avg_line_length is the exact quotient num/den.            *)
(***************************************************************************)
EXTENDS Integers, Sequences, FiniteSets

VARIABLES image, ocr, feats, result, pc

vars == <<image, ocr, feats, result, pc>>

----------------------------------------------------------------------------
(* Characters and the str / re primitives the source uses.                 *)

UPPER ==
    <<"A", "B", "C", "D", "E", "F", "G", "H", "I", "J", "K", "L", "M",
      "N", "O", "P", "Q", "R", "S", "T", "U", "V", "W", "X", "Y", "Z">>

LOWER ==
    <<"a", "b", "c", "d", "e", "f", "g", "h", "i", "j", "k", "l", "m",
      "n", "o", "p", "q", "r", "s", "t", "u", "v", "w", "x", "y", "z">>

LowerOf ==
    [c \in {UPPER[i] : i \in 1..26} |->
        LOWER[CHOOSE i \in 1..26 : UPPER[i] = c]]

\* str.lower(): the Kelvin sign lowers to k, the long s is lower case
lower(s) ==
    [i \in 1..Len(s) |->
        IF s[i] \in DOMAIN LowerOf THEN LowerOf[s[i]]
        ELSE IF s[i] = "KELVIN" THEN "k"
        ELSE s[i]]

\* the letters as re.IGNORECASE compares them: besides the lower-casing, the
\* long s matches s
ignorecase(s) ==
    [i \in 1..Len(s) |-> IF s[i] = "LONGS" THEN "s" ELSE lower(<<s[i]>>)[1]]

\* re \s
IsSpace(c) == c \in {" ", "\t", "\n"}

\* re \d
IsDigit(c) == c \in {"0", "1", "2", "3", "4", "5", "6", "7", "8", "9"}

\* re \w
IsWord(c) ==
    \/ IsDigit(c)
    \/ c = "_"
    \/ c \in DOMAIN LowerOf
    \/ \E i \in 1..26 : LOWER[i] = c
    \/ c \in {"LONGS", "KELVIN"}

\* sub in s
Contains(sub, s) ==
    \E i \in 0..(Len(s) - Len(sub)) : \A j \in 1..Len(sub) : s[i + j] = sub[j]

\* len(s.split()): the number of maximal runs of non-whitespace
WordCount(s) ==
    Cardinality({i \in 1..Len(s) :
        /\ ~IsSpace(s[i])
        /\ (i = 1 \/ IsSpace(s[i - 1]))})

\* the index after the longest run of whitespace that starts at i (a greedy
\* \s* or \s+ of a regular expression)
SpaceRunEnd(s, i) ==
    CHOOSE j \in i..(Len(s) + 1) :
        /\ \A k \in i..(j - 1) : IsSpace(s[k])
        /\ (j = Len(s) + 1 \/ ~IsSpace(s[j]))

\* the same for digits (\d+)
DigitRunEnd(s, i) ==
    CHOOSE j \in i..(Len(s) + 1) :
        /\ \A k \in i..(j - 1) : IsDigit(s[k])
        /\ (j = Len(s) + 1 \/ ~IsDigit(s[j]))

\* the same for word characters (\w+)
WordRunEnd(s, i) ==
    CHOOSE j \in i..(Len(s) + 1) :
        /\ \A k \in i..(j - 1) : IsWord(s[k])
        /\ (j = Len(s) + 1 \/ ~IsWord(s[j]))

\* "\n".join(lines)
RECURSIVE JoinLines(_)
JoinLines(lines) ==
    IF Len(lines) = 0 THEN <<>>
    ELSE IF Len(lines) = 1 THEN lines[1]
    ELSE lines[1] \o <<"\n">> \o JoinLines(Tail(lines))

RECURSIVE SumLen(_)
SumLen(lines) ==
    IF Len(lines) = 0 THEN 0 ELSE Len(lines[1]) + SumLen(Tail(lines))

----------------------------------------------------------------------------
(* features.py: vocabulary lists                                           *)

MEASURE_UNITS ==
    << <<"g">>,
       <<"k", "g">>,
       <<"m", "l">>,
       <<"l">>,
       <<"t", "b", "s", "p">>,
       <<"t", "s", "p">>,
       <<"c", "u", "p">>,
       <<"c", "u", "p", "s">>,
       <<"o", "z">>,
       <<"DEG", "c">>,
       <<"DEG", "f">> >>

COOKING_VERBS ==
    << <<"p", "r", "e", "h", "e", "a", "t">>,
       <<"m", "i", "x">>,
       <<"s", "t", "i", "r">>,
       <<"b", "a", "k", "e">>,
       <<"b", "o", "i", "l">>,
       <<"s", "i", "m", "m", "e", "r">>,
       <<"c", "h", "o", "p">>,
       <<"f", "r", "y">>,
       <<"w", "h", "i", "s", "k">>,
       <<"s", "e", "r", "v", "e">> >>

INGREDIENT_SECTION_TERMS ==
    << <<"i", "n", "g", "r", "e", "d", "i", "e", "n", "t", "s">>,
       <<"s", "e", "r", "v", "e", "s">>,
       <<"m", "a", "k", "e", "s">>,
       <<"y", "i", "e", "l", "d">> >>

STEP_TERMS ==
    << <<"i", "n", "s", "t", "r", "u", "c", "t", "i", "o", "n", "s">>,
       <<"m", "e", "t", "h", "o", "d">>,
       <<"d", "i", "r", "e", "c", "t", "i", "o", "n", "s">>,
       <<"s", "t", "e", "p", "s">> >>

WORKOUT_TERMS ==
    << <<"s", "e", "t", "s">>,
       <<"r", "e", "p", "s">>,
       <<"r", "e", "s", "t">>,
       <<"w", "a", "r", "m", "-", "u", "p">>,
       <<"c", "o", "o", "l", "d", "o", "w", "n">>,
       <<"a", "m", "r", "a", "p">>,
       <<"e", "m", "o", "m">>,
       <<"r", "o", "u", "n", "d", "s">> >>

WORKOUT_BODY_PARTS ==
    << <<"l", "e", "g", "s">>,
       <<"c", "h", "e", "s", "t">>,
       <<"b", "a", "c", "k">>,
       <<"s", "h", "o", "u", "l", "d", "e", "r", "s">>,
       <<"g", "l", "u", "t", "e", "s">>,
       <<"c", "o", "r", "e">>,
       <<"a", "b", "s">> >>

\* The source line reads  ["EMDASH", "-", """, """, '"']  with straight
\* quotes throughout: Python parses  """, """  as one triple-quoted string
\* whose content is a comma and a space, so the list has four elements and
\* holds no curly quote.
QUOTE_MARKERS ==
    << <<"EMDASH">>,
       <<"-">>,
       <<",", " ">>,
       <<"\"">> >>

----------------------------------------------------------------------------
(* ocr.py: run_ocr, from the text tesseract reads to the OcrResult         *)

\* str.strip(): leading and trailing whitespace removed
strip(s) ==
    LET a == SpaceRunEnd(s, 1)
    IN  IF a > Len(s) THEN <<>>
        ELSE LET b == CHOOSE k \in a..Len(s) :
                          /\ ~IsSpace(s[k])
                          /\ \A j \in (k + 1)..Len(s) : IsSpace(s[j])
             IN  SubSeq(s, a, b)

RECURSIVE splitlines(_)
\* str.splitlines(): the pieces between line breaks, no empty last piece
splitlines(s) ==
    IF s = <<>> THEN <<>>
    ELSE IF \A i \in 1..Len(s) : s[i] # "\n" THEN <<s>>
    ELSE LET k == CHOOSE i \in 1..Len(s) :
                      s[i] = "\n" /\ \A j \in 1..(i - 1) : s[j] # "\n"
         IN  <<SubSeq(s, 1, k - 1)>> \o splitlines(SubSeq(s, k + 1, Len(s)))

RECURSIVE strip_nonblank(_)
\* [line.strip() for line in ls if line.strip()]
strip_nonblank(ls) ==
    IF ls = <<>> THEN <<>>
    ELSE IF strip(Head(ls)) = <<>> THEN strip_nonblank(Tail(ls))
    ELSE <<strip(Head(ls))>> \o strip_nonblank(Tail(ls))

\* run_ocr on an image tesseract reads as text
run_ocr(text) ==
    LET full_text == strip(text)
    IN  [ full_text |-> full_text,
          lines     |-> strip_nonblank(splitlines(full_text)) ]

----------------------------------------------------------------------------
(* features.py: compute_layout_features                                    *)

\* re.compile(r"^[\s]*[BULLET\-\*\+]\s+").match(line)
bullet_pattern(line) ==
    LET a == SpaceRunEnd(line, 1)
    IN  /\ a + 1 <= Len(line)
        /\ line[a] \in {"BULLET", "-", "*", "+"}
        /\ IsSpace(line[a + 1])

\* numbered_pattern with the '.' or ')' after the digits left out
numbered_pattern_no_punct(line) ==
    LET a == SpaceRunEnd(line, 1)
        b == DigitRunEnd(line, a)
    IN  /\ b > a
        /\ b <= Len(line)
        /\ IsSpace(line[b])

\* re.compile(r"^[\s]*\d+[\.\)]\s+").match(line)
numbered_pattern(line) ==
    LET a == SpaceRunEnd(line, 1)
        b == DigitRunEnd(line, a)
    IN  /\ b > a
        /\ b + 1 <= Len(line)
        /\ line[b] \in {".", ")"}
        /\ IsSpace(line[b + 1])

\* compute_layout_features without the guard on line_count: the quotient of
\* zero lines has denominator 0 (the division raises)
compute_layout_features_unguarded(o) ==
    LET lines == o.lines
        line_count == Len(lines)
    IN  [ line_count      |-> line_count,
          bullet_lines    |->
              Cardinality({i \in 1..Len(lines) : bullet_pattern(lines[i])}),
          numbered_lines  |->
              Cardinality({i \in 1..Len(lines) : numbered_pattern(lines[i])}),
          avg_line_length |-> [num |-> SumLen(lines), den |-> line_count] ]

\* compute_layout_features with the guard written line_count > 1: a single
\* line gets the 0.0 of the empty result
compute_layout_features_guard_off_by_one(o) ==
    LET lines == o.lines
        line_count == Len(lines)
    IN  [ line_count      |-> line_count,
          bullet_lines    |->
              Cardinality({i \in 1..Len(lines) : bullet_pattern(lines[i])}),
          numbered_lines  |->
              Cardinality({i \in 1..Len(lines) : numbered_pattern(lines[i])}),
          avg_line_length |->
              IF line_count > 1
              THEN [num |-> SumLen(lines), den |-> line_count]
              ELSE [num |-> 0, den |-> 1] ]

compute_layout_features(o) ==
    LET lines == o.lines
        line_count == Len(lines)
    IN  [ line_count      |-> line_count,
          bullet_lines    |->
              Cardinality({i \in 1..Len(lines) : bullet_pattern(lines[i])}),
          numbered_lines  |->
              Cardinality({i \in 1..Len(lines) : numbered_pattern(lines[i])}),
          avg_line_length |->
              IF line_count > 0
              THEN [num |-> SumLen(lines), den |-> line_count]
              ELSE [num |-> 0, den |-> 1] ]

----------------------------------------------------------------------------
(* features.py: compute_features                                           *)

\* quote_author_pattern with the em-dash left out of the character class
quote_author_pattern_hyphen_only(line) ==
    LET a == SpaceRunEnd(line, 1)
        b == SpaceRunEnd(line, a + 1)
        c == WordRunEnd(line, b)
        d == SpaceRunEnd(line, c)
    IN  /\ a <= Len(line)
        /\ line[a] = "-"
        /\ b > a + 1
        /\ c > b
        /\ d > c
        /\ d <= Len(line)
        /\ IsWord(line[d])

\* re.compile(r"^[\s]*[EMDASH\-]\s+\w+\s+\w+").match(line)
quote_author_pattern(line) ==
    LET a == SpaceRunEnd(line, 1)
        b == SpaceRunEnd(line, a + 1)
        c == WordRunEnd(line, b)
        d == SpaceRunEnd(line, c)
    IN  /\ a <= Len(line)
        /\ line[a] \in {"EMDASH", "-"}
        /\ b > a + 1
        /\ c > b
        /\ d > c
        /\ d <= Len(line)
        /\ IsWord(line[d])

\* sum(1 for term in vocab if any(term.lower() in line.lower() for line in lines))
CountTermsInLines(vocab, lines) ==
    Cardinality({t \in 1..Len(vocab) :
        \E i \in 1..Len(lines) : Contains(lower(vocab[t]), lower(lines[i]))})

\* sum(1 for term in vocab if term in text)
CountTermsInText(vocab, text) ==
    Cardinality({t \in 1..Len(vocab) : Contains(vocab[t], text)})

\* compute_features testing the vocabulary against the text as written (the
\* lower-casing of the text forgotten)
compute_features_case_sensitive(o) ==
    LET lowered(vocab) == [t \in 1..Len(vocab) |-> lower(vocab[t])]
    IN  [ ocr                      |-> o,
          layout                   |-> compute_layout_features(o),
          num_units                |->
              CountTermsInText(lowered(MEASURE_UNITS), o.full_text),
          num_cooking_verbs        |->
              CountTermsInLines(COOKING_VERBS, o.lines),
          num_workout_terms        |->
              CountTermsInLines(WORKOUT_TERMS, o.lines),
          num_body_parts           |->
              CountTermsInLines(WORKOUT_BODY_PARTS, o.lines),
          has_ingredients_section  |->
              CountTermsInText(lowered(INGREDIENT_SECTION_TERMS),
                               o.full_text) > 0,
          has_steps_section        |->
              CountTermsInText(lowered(STEP_TERMS), o.full_text) > 0,
          has_quote_author_pattern |->
              \E i \in 1..Len(o.lines) : quote_author_pattern(o.lines[i]),
          quote_mark_count         |->
              CountTermsInText(QUOTE_MARKERS, o.full_text) ]

compute_features(o) ==
    LET text_lower == lower(o.full_text)
        lowered(vocab) == [t \in 1..Len(vocab) |-> lower(vocab[t])]
    IN  [ ocr                      |-> o,
          layout                   |-> compute_layout_features(o),
          num_units                |->
              CountTermsInText(lowered(MEASURE_UNITS), text_lower),
          num_cooking_verbs        |-> CountTermsInLines(COOKING_VERBS, o.lines),
          num_workout_terms        |-> CountTermsInLines(WORKOUT_TERMS, o.lines),
          num_body_parts           |->
              CountTermsInLines(WORKOUT_BODY_PARTS, o.lines),
          has_ingredients_section  |->
              CountTermsInText(lowered(INGREDIENT_SECTION_TERMS), text_lower) > 0,
          has_steps_section        |->
              CountTermsInText(lowered(STEP_TERMS), text_lower) > 0,
          has_quote_author_pattern |->
              \E i \in 1..Len(o.lines) : quote_author_pattern(o.lines[i]),
          quote_mark_count         |->
              CountTermsInText(QUOTE_MARKERS, o.full_text) ]

----------------------------------------------------------------------------
(* Lines of text used as OCR input: the examples of the tests and of the   *)
(* specification, and lines that exercise the remaining rules.             *)

\* 3 sets of 10 reps
L_SETS_REPS ==
    <<"3", " ", "s", "e", "t", "s", " ", "o", "f", " ", "1", "0", " ", "r",
    "e", "p", "s">>

\* Rest 60 seconds
L_REST ==
    <<"R", "e", "s", "t", " ", "6", "0", " ", "s", "e", "c", "o", "n", "d",
    "s">>

\* Legs workout
L_LEGS ==
    <<"L", "e", "g", "s", " ", "w", "o", "r", "k", "o", "u", "t">>

\* Ingredients
L_INGREDIENTS ==
    <<"I", "n", "g", "r", "e", "d", "i", "e", "n", "t", "s">>

\* 2 cups flour
L_CUPS ==
    <<"2", " ", "c", "u", "p", "s", " ", "f", "l", "o", "u", "r">>

\* 1 tbsp sugar
L_TBSP ==
    <<"1", " ", "t", "b", "s", "p", " ", "s", "u", "g", "a", "r">>

\* Mix and bake at 350DEG F
L_MIX_BAKE ==
    <<"M", "i", "x", " ", "a", "n", "d", " ", "b", "a", "k", "e", " ", "a",
    "t", " ", "3", "5", "0", "DEG", "F">>

\* "The only way to do great work is to love what you do."
L_QUOTE ==
    <<"\"", "T", "h", "e", " ", "o", "n", "l", "y", " ", "w", "a", "y", " ",
    "t", "o", " ", "d", "o", " ", "g", "r", "e", "a", "t", " ", "w", "o",
    "r", "k", " ", "i", "s", " ", "t", "o", " ", "l", "o", "v", "e", " ",
    "w", "h", "a", "t", " ", "y", "o", "u", " ", "d", "o", ".", "\"">>

\* EMDASH Steve Jobs
L_AUTHOR ==
    <<"EMDASH", " ", "S", "t", "e", "v", "e", " ", "J", "o", "b", "s">>

\* Random text with no specific patterns here
L_RANDOM ==
    <<"R", "a", "n", "d", "o", "m", " ", "t", "e", "x", "t", " ", "w", "i",
    "t", "h", " ", "n", "o", " ", "s", "p", "e", "c", "i", "f", "i", "c",
    " ", "p", "a", "t", "t", "e", "r", "n", "s", " ", "h", "e", "r", "e">>

\* Serves 4
L_SERVES ==
    <<"S", "e", "r", "v", "e", "s", " ", "4">>

\* LDQUO To be or not to be RDQUO
L_CURLY ==
    <<"LDQUO", "T", "o", " ", "b", "e", " ", "o", "r", " ", "n", "o", "t",
    " ", "t", "o", " ", "b", "e", "RDQUO">>

\* BULLET Squats 3x10
L_BULLET_3X10 ==
    <<"BULLET", " ", "S", "q", "u", "a", "t", "s", " ", "3", "x", "1", "0">>

\* 1. Stir, then fry
L_NUMBERED ==
    <<"1", ".", " ", "S", "t", "i", "r", ",", " ", "t", "h", "e", "n", " ",
    "f", "r", "y">>

\* 5 reps
L_FIVE_REPS ==
    <<"5", " ", "r", "e", "p", "s">>

\* Hi
L_HI ==
    <<"H", "i">>

----------------------------------------------------------------------------
(* heuristics.py: the three scorers                                        *)

\* re.compile(r"(serves|makes)\s+\d+", re.IGNORECASE).search(line)
serves_pattern(line) ==
    LET l == ignorecase(line)
        after(word) ==
            \E i \in 0..(Len(l) - Len(word)) :
                /\ \A j \in 1..Len(word) : l[i + j] = word[j]
                /\ LET e == i + Len(word) + 1
                       f == SpaceRunEnd(line, e)
                   IN  f > e /\ f <= Len(line) /\ IsDigit(line[f])
    IN  \/ after(<<"s", "e", "r", "v", "e", "s">>)
        \/ after(<<"m", "a", "k", "e", "s">>)

\* re.compile(r"\d+\s*[xTIMES]\s*\d+", re.IGNORECASE).search(line)
workout_pattern(line) ==
    \E p \in 1..Len(line) :
        /\ line[p] \in {"x", "X", "TIMES"}
        /\ \E d \in 1..(p - 1) :
              IsDigit(line[d]) /\ \A k \in (d + 1)..(p - 1) : IsSpace(line[k])
        /\ \E e \in (p + 1)..Len(line) :
              IsDigit(line[e]) /\ \A k \in (p + 1)..(e - 1) : IsSpace(line[k])

\* avg_line_length >= n, on the exact quotient
AvgAtLeast(avg, n) == avg.num >= n * avg.den

\* score_recipe with a penalty copied from score_workout
score_recipe_with_penalty(f) ==
      (IF f.has_ingredients_section THEN 30 ELSE 0)
    + (IF f.num_units >= 3 THEN 20 ELSE 0)
    + (IF f.num_cooking_verbs >= 2 THEN 20 ELSE 0)
    + (IF f.layout.bullet_lines >= 3 THEN 10 ELSE 0)
    + (IF f.layout.numbered_lines >= 2 THEN 10 ELSE 0)
    + (IF \E i \in 1..Len(f.ocr.lines) : serves_pattern(f.ocr.lines[i])
       THEN 10 ELSE 0)
    - (IF f.num_workout_terms >= 2 THEN 20 ELSE 0)

score_recipe(f) ==
      (IF f.has_ingredients_section THEN 30 ELSE 0)
    + (IF f.num_units >= 3 THEN 20 ELSE 0)
    + (IF f.num_cooking_verbs >= 2 THEN 20 ELSE 0)
    + (IF f.layout.bullet_lines >= 3 THEN 10 ELSE 0)
    + (IF f.layout.numbered_lines >= 2 THEN 10 ELSE 0)
    + (IF \E i \in 1..Len(f.ocr.lines) : serves_pattern(f.ocr.lines[i])
       THEN 10 ELSE 0)

\* "sets" in line.lower() or "reps" in line.lower()
sets_or_reps(line) ==
    \/ Contains(<<"s", "e", "t", "s">>, lower(line))
    \/ Contains(<<"r", "e", "p", "s">>, lower(line))

\* score_workout with the penalty clamped at zero: max(0.0, score - 2.0)
score_workout_clamped(f) ==
    LET lines == f.ocr.lines
        sets_reps_count ==
            Cardinality({i \in 1..Len(lines) : sets_or_reps(lines[i])})
        bonuses ==
              (IF sets_reps_count >= 2 THEN 30 ELSE 0)
            + (IF \E i \in 1..Len(lines) : workout_pattern(lines[i])
               THEN 20 ELSE 0)
            + (IF f.num_workout_terms >= 2 THEN 20 ELSE 0)
            + (IF f.num_body_parts > 0 THEN 10 ELSE 0)
            + (IF f.layout.bullet_lines >= 2 \/ f.layout.numbered_lines >= 2
               THEN 10 ELSE 0)
    IN  IF ~f.has_ingredients_section THEN bonuses
        ELSE IF bonuses >= 20 THEN bonuses - 20 ELSE 0

\* score_workout counting the words instead of the lines: a line with both
\* "sets" and "reps" counts twice
score_workout_counts_words(f) ==
    LET lines == f.ocr.lines
        sets_reps_count ==
              Cardinality({i \in 1..Len(lines) :
                  Contains(<<"s", "e", "t", "s">>, lower(lines[i]))})
            + Cardinality({i \in 1..Len(lines) :
                  Contains(<<"r", "e", "p", "s">>, lower(lines[i]))})
    IN    (IF sets_reps_count >= 2 THEN 30 ELSE 0)
        + (IF \E i \in 1..Len(lines) : workout_pattern(lines[i])
           THEN 20 ELSE 0)
        + (IF f.num_workout_terms >= 2 THEN 20 ELSE 0)
        + (IF f.num_body_parts > 0 THEN 10 ELSE 0)
        + (IF f.layout.bullet_lines >= 2 \/ f.layout.numbered_lines >= 2
           THEN 10 ELSE 0)
        - (IF f.has_ingredients_section THEN 20 ELSE 0)

score_workout(f) ==
    LET lines == f.ocr.lines
        sets_reps_count ==
            Cardinality({i \in 1..Len(lines) : sets_or_reps(lines[i])})
    IN    (IF sets_reps_count >= 2 THEN 30 ELSE 0)
        + (IF \E i \in 1..Len(lines) : workout_pattern(lines[i])
           THEN 20 ELSE 0)
        + (IF f.num_workout_terms >= 2 THEN 20 ELSE 0)
        + (IF f.num_body_parts > 0 THEN 10 ELSE 0)
        + (IF f.layout.bullet_lines >= 2 \/ f.layout.numbered_lines >= 2
           THEN 10 ELSE 0)
        - (IF f.has_ingredients_section THEN 20 ELSE 0)

\* any(marker in line for marker in QUOTE_MARKERS)
has_quote_mark(line) ==
    \E m \in 1..Len(QUOTE_MARKERS) : Contains(QUOTE_MARKERS[m], line)

\* the loop of score_quote over the lines: +2.0 at the first line that has a
\* quote mark and four or more words, then break
RECURSIVE quote_line_bonus(_)
quote_line_bonus(lines) ==
    IF Len(lines) = 0 THEN 0
    ELSE IF has_quote_mark(lines[1]) /\ WordCount(lines[1]) >= 4 THEN 20
    ELSE quote_line_bonus(Tail(lines))

\* the four rules of score_quote that follow the loop
quote_other_rules(f) ==
      (IF f.has_quote_author_pattern THEN 30 ELSE 0)
    + (IF 1 <= f.layout.line_count /\ f.layout.line_count <= 6 THEN 10 ELSE 0)
    + (IF AvgAtLeast(f.layout.avg_line_length, 40) THEN 10 ELSE 0)
    + (IF f.num_units = 0 /\ f.num_workout_terms = 0 THEN 10 ELSE 0)

\* score_quote adding 1.0 when quote_mark_count is positive
score_quote_uses_mark_count(f) ==
      quote_line_bonus(f.ocr.lines) + quote_other_rules(f)
    + (IF f.quote_mark_count > 0 THEN 10 ELSE 0)

score_quote(f) == quote_line_bonus(f.ocr.lines) + quote_other_rules(f)

----------------------------------------------------------------------------
(* heuristics.py: classify                                                 *)

\* the keys of the scores dict, in insertion order
ScoreKeys == <<"recipe", "workout", "quote">>

\* max_by_score taking a later key on a tie (>= for >)
RECURSIVE max_by_score_last(_, _, _)
max_by_score_last(scores, best, i) ==
    IF i > Len(ScoreKeys) THEN best
    ELSE max_by_score_last(scores,
                           IF scores[ScoreKeys[i]] >= scores[best]
                           THEN ScoreKeys[i] ELSE best,
                           i + 1)

\* max(scores, key=scores.get): the scan keeps the first key whose score is
\* not exceeded by a later one
RECURSIVE max_by_score(_, _, _)
max_by_score(scores, best, i) ==
    IF i > Len(ScoreKeys) THEN best
    ELSE max_by_score(scores,
                      IF scores[ScoreKeys[i]] > scores[best]
                      THEN ScoreKeys[i] ELSE best,
                      i + 1)

DEFAULT_THRESHOLD == 50

\* classify with best_score <= threshold for best_score < threshold
classify_le(f, threshold) ==
    LET scores == [ recipe  |-> score_recipe(f),
                    workout |-> score_workout(f),
                    quote   |-> score_quote(f) ]
        best_type == max_by_score(scores, ScoreKeys[1], 2)
        best_score == scores[best_type]
    IN  [ item_type |-> IF best_score <= threshold THEN "none" ELSE best_type,
          scores    |-> scores,
          threshold |-> threshold ]

\* classify comparing with the default threshold instead of its argument
classify_default_threshold(f, threshold) ==
    LET scores == [ recipe  |-> score_recipe(f),
                    workout |-> score_workout(f),
                    quote   |-> score_quote(f) ]
        best_type == max_by_score(scores, ScoreKeys[1], 2)
        best_score == scores[best_type]
    IN  [ item_type |-> IF best_score < DEFAULT_THRESHOLD
                        THEN "none" ELSE best_type,
          scores    |-> scores,
          threshold |-> threshold ]

classify(f, threshold) ==
    LET scores == [ recipe  |-> score_recipe(f),
                    workout |-> score_workout(f),
                    quote   |-> score_quote(f) ]
        best_type == max_by_score(scores, ScoreKeys[1], 2)
        best_score == scores[best_type]
    IN  [ item_type |-> IF best_score < threshold THEN "none" ELSE best_type,
          scores    |-> scores,
          threshold |-> threshold ]

----------------------------------------------------------------------------
(* tests/test_heuristics.py: create_test_features, the way the tests build *)
(* a Features value field by field                                         *)

\* kw is the record of the keyword arguments of the call
create_test_features(kw) ==
    [ ocr    |-> [full_text |-> JoinLines(kw.lines), lines |-> kw.lines],
      layout |->
          [ line_count      |->
                IF kw.line_count # 0 THEN kw.line_count ELSE Len(kw.lines),
            bullet_lines    |-> kw.bullet_lines,
            numbered_lines  |-> kw.numbered_lines,
            avg_line_length |->
                IF kw.avg_line_length # 0
                THEN [num |-> kw.avg_line_length, den |-> 1]
                ELSE IF Len(kw.lines) # 0
                THEN [num |-> SumLen(kw.lines), den |-> Len(kw.lines)]
                ELSE [num |-> 0, den |-> 1] ],
      num_units                |-> kw.num_units,
      num_cooking_verbs        |-> kw.num_cooking_verbs,
      num_workout_terms        |-> kw.num_workout_terms,
      num_body_parts           |-> kw.num_body_parts,
      has_ingredients_section  |-> kw.has_ingredients_section,
      has_steps_section        |-> kw.has_steps_section,
      has_quote_author_pattern |-> kw.has_quote_author_pattern,
      quote_mark_count         |-> kw.quote_mark_count ]

----------------------------------------------------------------------------
(* Inputs                                                                  *)

\* an OcrResult whose full_text is its lines joined by line breaks
OcrOf(lines) == [full_text |-> JoinLines(lines), lines |-> lines]

EmptyOcr == [full_text |-> <<>>, lines |-> <<>>]

WorkoutExample == OcrOf(<<L_SETS_REPS, L_REST, L_LEGS>>)

QuoteExample == OcrOf(<<L_QUOTE, L_AUTHOR>>)

RecipeExample == OcrOf(<<L_INGREDIENTS, L_CUPS, L_TBSP, L_MIX_BAKE>>)

RandomExample == OcrOf(<<L_RANDOM>>)

LinePool ==
    { L_SETS_REPS, L_FIVE_REPS, L_LEGS, L_INGREDIENTS, L_SERVES, L_AUTHOR,
      L_CURLY, L_BULLET_3X10, L_NUMBERED, L_HI }

\* the longest OCR result built from the pool
MaxLines == 2

PoolOcrs ==
    { OcrOf(ls) : ls \in UNION { [1..n -> LinePool] : n \in 0..MaxLines } }

Corpus ==
    PoolOcrs \cup {EmptyOcr, WorkoutExample, QuoteExample, RecipeExample,
                   RandomExample}

\* thresholds in tenths: 0.0, 3.0, 5.0 (the default), 100.0
Thresholds == {0, 30, DEFAULT_THRESHOLD, 1000}

\* the line lists the hand-built Features carry
TestLines ==
    { <<>>,
      <<L_SETS_REPS, L_REST, L_LEGS>>,
      <<L_SERVES, L_SETS_REPS, L_FIVE_REPS, L_BULLET_3X10>> }

\* the largest value of each count field of a hand-built Features
MaxUnits == 3

MaxVerbs == 2

MaxTerms == 2

MaxParts == 1

MaxBullets == 3

MaxNumbered == 2

\* pieces of the text tesseract reads from an image
P_SPACE == <<" ">>

P_NEWLINE == <<"\n">>

P_SERVES == <<"S", "e", "r", "v", "e", "s">>

P_MAKES_LONG_S == <<"m", "a", "k", "e", "LONGS">>

P_MAKES_KELVIN == <<"m", "a", "KELVIN", "e", "s">>

P_FOUR == <<"4">>

P_HI == <<"H", "i">>

PiecePool ==
    {P_SPACE, P_NEWLINE, P_SERVES, P_MAKES_LONG_S, P_MAKES_KELVIN, P_FOUR, P_HI}

\* the most pieces in one image text
MaxPieces == 4

RECURSIVE Concat(_)
Concat(ps) == IF ps = <<>> THEN <<>> ELSE Head(ps) \o Concat(Tail(ps))

ImageTexts ==
    { Concat(ps) : ps \in UNION { [1..n -> PiecePool] : n \in 0..MaxPieces } }

\* the largest quote_mark_count of a hand-built Features
MaxMarks == 2

----------------------------------------------------------------------------
(* The pipeline as a state machine: an OcrResult arrives, its features are *)
(* computed, the features are classified.                                  *)

None == [none |-> TRUE]

Init ==
    /\ image = None
    /\ ocr \in Corpus
    /\ feats = None
    /\ result = None
    /\ pc = "ocr"

ComputeFeatures ==
    /\ pc = "ocr"
    /\ feats' = compute_features(ocr)
    /\ pc' = "features"
    /\ UNCHANGED <<image, ocr, result>>

Classify ==
    /\ pc = "features"
    /\ \E threshold \in Thresholds : result' = classify(feats, threshold)
    /\ pc' = "classified"
    /\ UNCHANGED <<image, ocr, feats>>

Next == ComputeFeatures \/ Classify

Spec == Init /\ [][Next]_vars

(* The scorers and classify applied to Features built by hand, as the      *)
(* tests of heuristics.py do.                                              *)

InitTest ==
    /\ image = None
    /\ ocr \in {OcrOf(ls) : ls \in TestLines}
    /\ feats = None
    /\ result = None
    /\ pc = "ocr"

CreateTestFeatures ==
    /\ pc = "ocr"
    /\ \E nu \in 0..MaxUnits, nv \in 0..MaxVerbs, nt \in 0..MaxTerms,
          nb \in 0..MaxParts, bl \in 0..MaxBullets, nl \in 0..MaxNumbered,
          ing \in BOOLEAN, au \in BOOLEAN :
          feats' = create_test_features(
              [ lines                    |-> ocr.lines,
                num_units                |-> nu,
                num_cooking_verbs        |-> nv,
                num_workout_terms        |-> nt,
                num_body_parts           |-> nb,
                has_ingredients_section  |-> ing,
                has_steps_section        |-> FALSE,
                has_quote_author_pattern |-> au,
                quote_mark_count         |-> 0,
                line_count               |-> 0,
                bullet_lines             |-> bl,
                numbered_lines           |-> nl,
                avg_line_length          |-> 0 ])
    /\ pc' = "features"
    /\ UNCHANGED <<image, ocr, result>>

NextTest == CreateTestFeatures \/ Classify

SpecTest == InitTest /\ [][NextTest]_vars

(* Hand-built Features that also vary has_steps_section and                *)
(* quote_mark_count; each count is at its least or its greatest value.     *)

CreateFieldFeatures ==
    /\ pc = "ocr"
    /\ \E nu \in {0, MaxUnits}, nv \in {0, MaxVerbs}, nt \in {0, MaxTerms},
          nb \in 0..MaxParts, bl \in {0, MaxBullets},
          ing \in BOOLEAN, au \in BOOLEAN,
          st \in BOOLEAN, qm \in 0..MaxMarks :
          feats' = create_test_features(
              [ lines                    |-> ocr.lines,
                num_units                |-> nu,
                num_cooking_verbs        |-> nv,
                num_workout_terms        |-> nt,
                num_body_parts           |-> nb,
                has_ingredients_section  |-> ing,
                has_steps_section        |-> st,
                has_quote_author_pattern |-> au,
                quote_mark_count         |-> qm,
                line_count               |-> 0,
                bullet_lines             |-> bl,
                numbered_lines           |-> 0,
                avg_line_length          |-> 0 ])
    /\ pc' = "features"
    /\ UNCHANGED <<image, ocr, result>>

NextFields == CreateFieldFeatures \/ Classify

SpecFields == InitTest /\ [][NextFields]_vars

(* The whole pipeline from the image: run_ocr reads the text, or fails and *)
(* returns the empty OcrResult.                                            *)

InitOcr ==
    /\ image \in ImageTexts
    /\ ocr = None
    /\ feats = None
    /\ result = None
    /\ pc = "image"

RunOcr ==
    /\ pc = "image"
    /\ \/ ocr' = run_ocr(image)
       \/ ocr' = EmptyOcr
    /\ pc' = "ocr"
    /\ UNCHANGED <<image, feats, result>>

NextOcr == RunOcr \/ ComputeFeatures \/ Classify

SpecOcr == InitOcr /\ [][NextOcr]_vars

----------------------------------------------------------------------------
(* Properties                                                              *)

Categories == {"recipe", "workout", "quote"}

Max2(a, b) == IF a >= b THEN a ELSE b

\* the largest of the three scores of a result
MaxScore(r) == Max2(r.scores.recipe, Max2(r.scores.workout, r.scores.quote))

Classified == pc = "classified"

\* C1: classify returns 'none' exactly when the largest of the three scores
\* is strictly below the threshold; otherwise (the largest score equal to
\* the threshold included) it returns a category, one that has that score.
C1_NoneIffMaxBelowThreshold ==
    Classified =>
        /\ (result.item_type = "none") <=> (MaxScore(result) < result.threshold)
        /\ MaxScore(result) >= result.threshold =>
              /\ result.item_type \in Categories
              /\ result.scores[result.item_type] = MaxScore(result)

C1_Witness ==
    /\ Classified
    /\ MaxScore(result) = result.threshold
    /\ result.item_type \in Categories

\* C2: when several categories share the largest score, the category
\* returned is the first of them in the order recipe, workout, quote.
C2_TieBreakPriority ==
    (Classified /\ result.item_type # "none") =>
        LET s == result.scores
            m == MaxScore(result)
        IN  /\ s.recipe = m => result.item_type = "recipe"
            /\ (s.recipe < m /\ s.workout = m) => result.item_type = "workout"
            /\ (s.recipe < m /\ s.workout < m) => result.item_type = "quote"

C2_Witness ==
    /\ Classified
    /\ result.scores.workout = result.scores.quote
    /\ result.scores.recipe < result.scores.workout
    /\ result.item_type = "workout"

\* C3: for the lines "3 sets of 10 reps", "Rest 60 seconds", "Legs workout"
\* compute_features gives num_workout_terms >= 2 and num_body_parts >= 1,
\* score_workout is at least 5.0 and classify at threshold 5.0 returns
\* 'workout'.
C3_WorkoutExample ==
    (ocr = WorkoutExample /\ Classified
        /\ result.threshold = DEFAULT_THRESHOLD) =>
        /\ feats.num_workout_terms >= 2
        /\ feats.num_body_parts >= 1
        /\ result.scores.workout >= 50
        /\ result.item_type = "workout"

\* both words occur in the lines
MentionsSetsAndReps(lines) ==
    /\ \E i \in 1..Len(lines) : Contains(<<"s", "e", "t", "s">>, lower(lines[i]))
    /\ \E i \in 1..Len(lines) : Contains(<<"r", "e", "p", "s">>, lower(lines[i]))

\* C4: score_workout is at least 5.0 for Features with
\* num_workout_terms >= 2, num_body_parts >= 1, bullet_lines >= 2 and no
\* ingredients section whose lines mention 'sets' and 'reps'.
C4_WorkoutLikeScore ==
    (Classified
        /\ feats.num_workout_terms >= 2
        /\ feats.num_body_parts >= 1
        /\ feats.layout.bullet_lines >= 2
        /\ ~feats.has_ingredients_section
        /\ MentionsSetsAndReps(feats.ocr.lines)) =>
        result.scores.workout >= 50

\* the glyphs the specification lists as quote markers
SpecQuoteGlyphs == {"EMDASH", "-", "\"", "LDQUO", "RDQUO"}

\* a line of four or more words that contains one of the listed glyphs
SpecQuoteLine(line) ==
    /\ WordCount(line) >= 4
    /\ \E i \in 1..Len(line) : line[i] \in SpecQuoteGlyphs

\* C5: score_quote adds 2.0, once, when at least one line has four or more
\* words and contains an em-dash, a hyphen, a straight double quote or a
\* curly double quote.
C5_QuoteMarkerBonus ==
    (Classified
        /\ \E i \in 1..Len(feats.ocr.lines) : SpecQuoteLine(feats.ocr.lines[i])) =>
        result.scores.quote = 20 + quote_other_rules(feats)

\* C6: compute_features on the quotation with its attribution line gives
\* num_units = 0 and num_workout_terms = 0, quote_mark_count > 0 and
\* has_quote_author_pattern true.
C6_QuoteFeatures ==
    (ocr = QuoteExample /\ pc # "ocr") =>
        /\ feats.num_units = 0
        /\ feats.num_workout_terms = 0
        /\ feats.quote_mark_count > 0
        /\ feats.has_quote_author_pattern

\* C7: the empty OCR result is tolerated: its layout has line_count,
\* bullet_lines and numbered_lines 0 and avg_line_length 0.0 with no
\* division by zero, and classify at the default threshold returns 'none'.
C7_EmptyOcrIsNone ==
    (ocr = EmptyOcr /\ pc # "ocr") =>
        /\ feats.layout.line_count = 0
        /\ feats.layout.bullet_lines = 0
        /\ feats.layout.numbered_lines = 0
        /\ feats.layout.avg_line_length.den # 0
        /\ feats.layout.avg_line_length.num = 0
        /\ (Classified /\ result.threshold = DEFAULT_THRESHOLD) =>
              result.item_type = "none"

C7_Witness ==
    /\ ocr = EmptyOcr
    /\ Classified
    /\ result.threshold = DEFAULT_THRESHOLD
    /\ result.item_type = "none"

\* C8: at threshold 0.0 classify never returns 'none': the recipe and the
\* quote score are never negative, even when the workout score is.
C8_ZeroThresholdNeverNone ==
    Classified =>
        /\ result.scores.recipe >= 0
        /\ result.scores.quote >= 0
        /\ result.threshold = 0 => result.item_type # "none"

C8_Witness ==
    /\ Classified
    /\ result.threshold = 0
    /\ result.scores.workout < 0
    /\ result.item_type \in Categories

\* C9: at threshold 100.0 classify returns 'none' for every Features, no
\* score reaching 100.0, and the result still carries the three scores and
\* the threshold.
C9_HundredThresholdAlwaysNone ==
    (Classified /\ result.threshold = 1000) =>
        /\ result.item_type = "none"
        /\ MaxScore(result) < 1000
        /\ DOMAIN result.scores = Categories
        /\ result.scores.recipe = score_recipe(feats)
        /\ result.scores.workout = score_workout(feats)
        /\ result.scores.quote = score_quote(feats)

C9_Witness ==
    /\ Classified
    /\ result.threshold = 1000
    /\ result.scores.recipe >= DEFAULT_THRESHOLD
    /\ result.item_type = "none"

\* C10: for the quotation and its attribution line compute_features gives
\* has_quote_author_pattern true and line_count 2, score_quote is at least
\* 5.0 and classify at threshold 5.0 returns 'quote'.
C10_QuoteExample ==
    (ocr = QuoteExample /\ pc # "ocr") =>
        /\ feats.has_quote_author_pattern
        /\ feats.layout.line_count = 2
        /\ Classified => result.scores.quote >= 50
        /\ (Classified /\ result.threshold = DEFAULT_THRESHOLD) =>
              result.item_type = "quote"

C10_Witness ==
    /\ ocr = QuoteExample
    /\ Classified
    /\ result.threshold = DEFAULT_THRESHOLD
    /\ result.item_type = "quote"


\* C11: for the lines "Ingredients", "2 cups flour", "1 tbsp sugar",
\* "Mix and bake at 350 DEG F" compute_features gives an ingredients section,
\* num_units >= 2, num_cooking_verbs >= 1 and no workout term or body part;
\* score_recipe is at least 5.0 and classify at threshold 5.0 returns
\* 'recipe'.
C11_RecipeExample ==
    (ocr = RecipeExample /\ pc # "ocr") =>
        /\ feats.has_ingredients_section
        /\ feats.num_units >= 2
        /\ feats.num_cooking_verbs >= 1
        /\ feats.num_workout_terms = 0
        /\ feats.num_body_parts = 0
        /\ Classified => result.scores.recipe >= 50
        /\ (Classified /\ result.threshold = DEFAULT_THRESHOLD) =>
              result.item_type = "recipe"

C11_Witness ==
    /\ ocr = RecipeExample
    /\ Classified
    /\ result.threshold = DEFAULT_THRESHOLD
    /\ result.item_type = "recipe"


\* C12: of two Features that differ only in has_ingredients_section, the one
\* with the section scores exactly 2.0 less in score_workout than the one
\* without; score_workout is never below -2.0.
C12_IngredientsPenalty ==
    Classified =>
        LET with == [feats EXCEPT !.has_ingredients_section = TRUE]
            without == [feats EXCEPT !.has_ingredients_section = FALSE]
        IN  /\ score_workout(with) = score_workout(without) - 20
            /\ result.scores.workout \in
                  {score_workout(with), score_workout(without)}
            /\ result.scores.workout >= -20

C12_Witness ==
    /\ Classified
    /\ feats.has_ingredients_section
    /\ result.scores.workout = -20


\* a line that starts, after optional whitespace, with one of the glyphs
\* bullet-dot, '-', '*', '+' followed by whitespace
IsBulletLine(line) ==
    \E a \in 1..(Len(line) - 1) :
        /\ \A k \in 1..(a - 1) : IsSpace(line[k])
        /\ line[a] \in {"BULLET", "-", "*", "+"}
        /\ IsSpace(line[a + 1])

\* a line that starts, after optional whitespace, with digits, then '.' or
\* ')', then whitespace
IsNumberedLine(line) ==
    \E a \in 1..Len(line), b \in 1..(Len(line) - 2) :
        /\ a <= b
        /\ \A k \in 1..(a - 1) : IsSpace(line[k])
        /\ \A k \in a..b : IsDigit(line[k])
        /\ line[b + 1] \in {".", ")"}
        /\ IsSpace(line[b + 2])

\* C13: compute_layout_features returns line_count equal to the number of
\* lines, bullet_lines the number of bullet lines and numbered_lines the
\* number of numbered lines, both between 0 and line_count.
C13_LayoutCounts ==
    pc # "ocr" =>
        LET lines == ocr.lines
            layout == feats.layout
        IN  /\ layout.line_count = Len(lines)
            /\ layout.bullet_lines =
                  Cardinality({i \in 1..Len(lines) : IsBulletLine(lines[i])})
            /\ layout.numbered_lines =
                  Cardinality({i \in 1..Len(lines) : IsNumberedLine(lines[i])})
            /\ 0 <= layout.bullet_lines
            /\ layout.bullet_lines <= layout.line_count
            /\ 0 <= layout.numbered_lines
            /\ layout.numbered_lines <= layout.line_count

C13_Witness ==
    /\ pc # "ocr"
    /\ feats.layout.bullet_lines = 1
    /\ feats.layout.numbered_lines = 1
    /\ feats.layout.line_count = 2


\* the data-model invariant of an OcrResult: the lines are the non-blank
\* lines of full_text, stripped and in order
OcrInvariant(o) ==
    /\ o.lines = strip_nonblank(splitlines(o.full_text))
    /\ \A i \in 1..Len(o.lines) : Contains(o.lines[i], o.full_text)

\* C14: for an OcrResult of run_ocr, which satisfies the data-model
\* invariant, avg_line_length is 0.0 exactly when line_count is 0: a line
\* is never empty, so one line or more gives a positive average.
C14_AvgZeroIffNoLines ==
    (pc \notin {"image", "ocr"}) =>
        /\ OcrInvariant(ocr)
        /\ feats.layout.avg_line_length.den > 0
        /\ (feats.layout.avg_line_length.num = 0) <=>
               (feats.layout.line_count = 0)

C14_Witness ==
    /\ pc = "features"
    /\ feats.layout.line_count = 1
    /\ feats.layout.avg_line_length.num > 0


\* C15: quote_mark_count is the number of distinct glyphs among the em-dash,
\* the hyphen, the straight double quote and the two curly double quotes
\* that occur in full_text, each counted once.
C15_QuoteMarkCount ==
    pc # "ocr" =>
        feats.quote_mark_count =
            Cardinality({g \in SpecQuoteGlyphs :
                \E i \in 1..Len(ocr.full_text) : ocr.full_text[i] = g})


\* the indices of the lines that mention "sets" or "reps", in any case
SetsRepsLines(lines) ==
    {i \in 1..Len(lines) :
        \E w \in {<<"s", "e", "t", "s">>, <<"r", "e", "p", "s">>} :
            Contains(w, lower(lines[i]))}

\* what score_workout gives apart from the sets/reps bonus
WorkoutOtherRules(f) ==
      (IF \E i \in 1..Len(f.ocr.lines) : workout_pattern(f.ocr.lines[i])
       THEN 20 ELSE 0)
    + (IF f.num_workout_terms >= 2 THEN 20 ELSE 0)
    + (IF f.num_body_parts > 0 THEN 10 ELSE 0)
    + (IF f.layout.bullet_lines >= 2 \/ f.layout.numbered_lines >= 2
       THEN 10 ELSE 0)
    - (IF f.has_ingredients_section THEN 20 ELSE 0)

\* C16: score_workout adds the 3.0 of the sets/reps rule exactly when two or
\* more lines mention "sets" or "reps"; a line with both words is one line,
\* so a single such line earns nothing.
C16_SetsRepsBonus ==
    Classified =>
        LET bonus == result.scores.workout - WorkoutOtherRules(feats)
            n == Cardinality(SetsRepsLines(feats.ocr.lines))
        IN  /\ bonus \in {0, 30}
            /\ bonus = 30 <=> n >= 2
            /\ (n = 1 /\ MentionsSetsAndReps(feats.ocr.lines)) => bonus = 0

C16_Witness ==
    /\ Classified
    /\ Cardinality(SetsRepsLines(feats.ocr.lines)) = 2
    /\ MentionsSetsAndReps(feats.ocr.lines)
    /\ result.scores.workout - WorkoutOtherRules(feats) = 30


\* C17: for the OcrResult of run_ocr and the Features computed from it, when
\* a line matches (serves|makes)\s+\d+, so that score_recipe adds the 1.0
\* of the serving rule, has_ingredients_section is true as well: the recipe
\* score is at least 4.0 and the workout score carries the penalty of 2.0.
C17_ServingImpliesIngredients ==
    (/\ pc \notin {"image", "ocr"}
     /\ \E i \in 1..Len(ocr.lines) : serves_pattern(ocr.lines[i])) =>
        /\ OcrInvariant(ocr)
        /\ feats.has_ingredients_section
        /\ Classified =>
              /\ result.scores.recipe >= 40
              /\ result.scores.workout =
                     score_workout(
                         [feats EXCEPT !.has_ingredients_section = FALSE]) - 20


\* C18: the result of classify, item_type and the three scores, does not
\* depend on has_steps_section and quote_mark_count: Features that differ
\* only in these two fields get the same result at every threshold.
C18_StepsAndMarksIgnored ==
    Classified =>
        \A st \in BOOLEAN, qm \in 0..MaxMarks :
            LET other == [feats EXCEPT !.has_steps_section = st,
                                       !.quote_mark_count = qm]
                r == classify(other, result.threshold)
            IN  /\ r.item_type = result.item_type
                /\ r.scores = result.scores

C18_Witness ==
    /\ Classified
    /\ feats.has_steps_section
    /\ feats.quote_mark_count = MaxMarks
    /\ result.item_type = "quote"

====
